---- MODULE Spec2Model ----
(***************************************************************************)
(* A model of src/src/block.js: the Block and Blockchain classes of the    *)
(* private star-registry blockchain.                                       *)
(*                                                                         *)
(* Every public method returns a Promise.  JavaScript runs one job to      *)
(* completion at a time, so one action of the model is one job: either the *)
(* synchronous part of a public call (up to its first await), or one       *)
(* microtask (the resumption of an await) taken from the head of the FIFO  *)
(* microtask queue.  Every promise awaited in the file is already settled  *)
(* when it is awaited, so each await resumes after one turn of the queue.  *)
(***************************************************************************)
EXTENDS Integers, Sequences, FiniteSets, TLC

VARIABLES
    chain,      \* Blockchain.chain: the array of committed Block objects
    height,     \* Blockchain.height
    now,        \* the clock read by _getCurrentTimeStamp (seconds)
    queue,      \* the microtask queue: suspended awaits, FIFO
    errorLogs,  \* the errorLog array of every validateChain run still referenced
    ncalls,     \* number of submitStar calls and in-place modifications so
                \* far (the id of the latest submitStar)
    last,       \* the most recent public call or settlement (observation)
    sealed      \* the blocks as they were when committed (observation)

vars == <<chain, height, now, queue, errorLogs, ncalls, last, sealed>>

-----------------------------------------------------------------------------
(* Bounds of the model *)

\* number of client operations that start an append (submitStar) or modify a
\* committed block in place; a client validateChain is not counted, one of
\* them is in flight at a time
MaxCalls == 2

Addresses == {"a1", "a2"}
Stars == {"s1"}
\* values the clock takes, and timestamps a caller embeds in a message
Clock == {1300, 1301}
Stamps == {1000, 1001, 1301}

-----------------------------------------------------------------------------
(* JavaScript values *)

Null == <<>>
Undefined == [type |-> "undefined"]
NaN == [nan |-> TRUE, val |-> 0]
Num(n) == [nan |-> FALSE, val |-> n]

\* the text of the second field of a message: digits, or no number at all
Digits(n) == [digits |-> TRUE, val |-> n]
NoDigits == [digits |-> FALSE, val |-> 0]

\* a parseInt that finds no number in any text
ParseIntNaN(text) == NaN

\* parseInt(text)
ParseInt(text) == IF text.digits THEN Num(text.val) ELSE NaN

\* a - b on numbers, NaN propagating
Minus(a, b) == IF a.nan \/ b.nan THEN NaN ELSE Num(a.val - b.val)

\* message.split(':')
Split(message) == message

\* `${address}:${timestamp}:starRegistry`
Message(address, text) == <<address, text, "starRegistry">>

-----------------------------------------------------------------------------
(* External capabilities *)

\* SHA256(JSON.stringify(x)).toString(): a digest of the fields in the order
\* the constructor sets them, modelled as collision free
SHA256(x) == <<x.hash, x.height, x.body, x.time, x.previousBlockHash>>

\* a signature of message made with the key of signer
Sign(signer, message) == [signer |-> signer, message |-> message]

\* a verify that forgets whose key made the signature
VerifyAnySigner(message, address, signature) == signature.message = message

\* bitcoinMessage.verify(message, address, signature)
Verify(message, address, signature) ==
    signature.signer = address /\ signature.message = message

-----------------------------------------------------------------------------
(* Block *)

\* Buffer.from(JSON.stringify(data)).toString('hex')
Encode(data) == <<"hex", data>>

\* JSON.parse(hex2ascii(body))
Decode(body) == body[2]

\* new Block(data)
NewBlock(data) ==
    [hash |-> Null, height |-> 0, body |-> Encode(data), time |-> 0,
     previousBlockHash |-> Null]

\* Block.validate: the stored hash against the hash of the block with hash null
Validate(block) == block.hash = SHA256([block EXCEPT !.hash = Null])

\* a validate that clears the hash of the block itself
AfterValidateInPlace(block) == [block EXCEPT !.hash = Null]

\* the block after validate(): the hash is cleared on a copy of the block
\* ({...self, hash: null}), the block itself is not written
AfterValidate(block) == block

\* Block.getBData is a getter that returns a Promise of the decoded body
GetBData(block) ==
    [type |-> "Promise",
     value |-> IF block.height = 0 THEN [type |-> "string", value |-> "Genesis Block!"]
               ELSE Decode(block.body)]

\* obj.name: a property the object does not have reads as undefined
GetProp(obj, name) ==
    IF obj.type = "Promise" THEN Undefined
    ELSE IF name \in DOMAIN obj THEN [type |-> "string", value |-> obj[name]]
    ELSE Undefined

JSString(s) == [type |-> "string", value |-> s]

-----------------------------------------------------------------------------
(* Blockchain helpers *)

GenesisData == [data |-> "Genesis Block"]
StarData(star, address) == [star |-> star, owner |-> address]

\* 5 * 60
Window == 300

\* the comparison written as deltaTime < 5 * 60
InWindowStrict(deltaTime) == ~deltaTime.nan /\ deltaTime.val < Window

\* deltaTime <= 5 * 60
InWindow(deltaTime) == ~deltaTime.nan /\ deltaTime.val <= Window

\* _addBlock up to its await: height, previousBlockHash, time and hash of block
SealBlock(block) ==
    LET newHeight == height + 1
        b1 == [block EXCEPT !.height = newHeight]
        b2 == IF newHeight > 0
              THEN [b1 EXCEPT !.previousBlockHash = chain[Len(chain)].hash]
              ELSE b1
        b3 == [b2 EXCEPT !.time = now]
    IN  [b3 EXCEPT !.hash = SHA256(b3)]

ValidationFailed == [error |-> "Block validation failed!"]
LinkFailed == [error |-> "Hash os previous block do not match!"]

\* a gate that commits whatever the validation found
NoErrorsIgnored(errors) == TRUE

\* errors.length === 0
NoErrors(errors) == Len(errors) = 0

\* an insertion at the front of the array (unshift)
PushFront(ch, block) == <<block>> \o ch

\* self.chain.push(block)
Push(ch, block) == Append(ch, block)

\* a commit that forgets to update the height
IncHeightForgotten(h) == h

\* self.height++
IncHeight(h) == h + 1

(* The jobs of the microtask queue.  id names the call, which is also the   *)
(* validateChain run of the call and its errorLog: 0 for the constructor,  *)
(* 1, 2, ... for the submitStar calls, ClientRun for a client's            *)
(* validateChain.                                                          *)
ClientRun == -1

ValidateCb(id, idx, isValid) ==
    [kind |-> "validateCb", id |-> id, idx |-> idx, isValid |-> isValid,
     block |-> NewBlock(GenesisData), tampered |-> {}]
\* _addBlock suspended at `await this.validateChain()`; idx (observation) is
\* the number of blocks the run walks
AddCont(id, block) ==
    [kind |-> "addCont", id |-> id, idx |-> Len(chain), isValid |-> TRUE,
     block |-> block, tampered |-> {}]
\* the caller of validateChain, suspended at its await; tampered (observation)
\* is the set of positions modified in place when the call was made
ValidateRead(id, tampered) ==
    [kind |-> "validateRead", id |-> id, idx |-> Len(chain), isValid |-> TRUE,
     block |-> NewBlock(GenesisData), tampered |-> tampered]

\* a schedule in which the caller of validateChain resumes before the
\* callbacks of forEach
EnqueueCallerFirst(q, callbacks, caller) == q \o <<caller>> \o callbacks

\* the microtasks of one validateChain call: every forEach callback reaches
\* its await before resolve(errorLog) runs, and the caller awaits the
\* promise after that, so the callbacks are queued before the caller
Enqueue(q, callbacks, caller) == q \o callbacks \o <<caller>>

\* validateChain up to resolve(errorLog): forEach starts one callback per
\* block; each evaluates block.validate() and suspends at its await
ValidateChainStart(id) ==
    [idx \in 1..Len(chain) |-> ValidateCb(id, idx, Validate(chain[idx]))]

\* the chain after forEach has called block.validate() on every block
AfterForEach(ch) == [idx \in 1..Len(ch) |-> AfterValidate(ch[idx])]

\* a callback that checks the link of every block but the first, whatever
\* its height
CallbackErrorsByIndex(ch, idx, isValid) ==
    LET block == ch[idx]
        self == IF isValid THEN <<>> ELSE <<ValidationFailed>>
        link == IF idx > 1
                THEN IF block.previousBlockHash = ch[idx - 1].hash
                     THEN <<>> ELSE <<LinkFailed>>
                ELSE <<>>
    IN  self \o link

\* what one resumed forEach callback pushes on the errorLog
CallbackErrors(ch, idx, isValid) ==
    LET block == ch[idx]
        self == IF isValid THEN <<>> ELSE <<ValidationFailed>>
        link == IF block.height > 0
                THEN IF idx = 1 THEN <<>>   \* arr[-1].hash throws a TypeError
                     ELSE IF block.previousBlockHash = ch[idx - 1].hash
                          THEN <<>> ELSE <<LinkFailed>>
                ELSE <<>>
    IN  self \o link

\* a job of call id is still in the queue
InFlight(id) == \E k \in 1..Len(queue) : queue[k].id = id

\* the list a validateChain call yields when nothing else runs during it
RECURSIVE ValidateAll(_, _)
ValidateAll(ch, n) ==
    IF n = 0 THEN <<>>
    ELSE ValidateAll(ch, n - 1) \o CallbackErrors(ch, n, Validate(ch[n]))

ValidateChainNow(ch) == ValidateAll(ch, Len(ch))

-----------------------------------------------------------------------------
(* Observations *)

Event(op, phase, id) ==
    [op |-> op, phase |-> phase, id |-> id,
     address |-> "", message |-> <<>>, signature |-> Sign("", <<>>),
     len0 |-> Len(chain), verified |-> FALSE,
     status |-> "pending", reason |-> "", errors |-> <<>>, stars |-> <<>>,
     n |-> 0, tampered |-> {}, key |-> Null, found |-> 0, result |-> "",
     reused |-> FALSE]

\* positions of the chain whose block is no longer as it was committed
Tampered == {i \in 1..Len(chain) : chain[i] # sealed[i]}

-----------------------------------------------------------------------------
(* Initial state: new Blockchain() has returned.  The constructor ran       *)
(* initializeChain and _addBlock up to `await this.validateChain()`; the   *)
(* chain was empty, so no forEach callback was started.                    *)

Init ==
    /\ chain = <<>>
    /\ height = -1
    /\ now = 1300
    /\ queue = <<AddCont(0, SealBlock(NewBlock(GenesisData)))>>
    /\ errorLogs = (0 :> <<>>)
    /\ ncalls = 0
    /\ last = Event("construct", "call", 0)
    /\ sealed = <<>>

-----------------------------------------------------------------------------
(* Actions *)

\* the clock advances; the jobs of one drain of the microtask queue run
\* within the same second
Tick ==
    /\ queue = <<>>
    /\ \E t \in Clock : t > now /\ now' = t
    /\ UNCHANGED <<chain, height, queue, errorLogs, ncalls, last, sealed>>

\* submitStar(address, message, signature, star), with the synchronous part
\* of the _addBlock and validateChain it calls
SubmitStar(address, text, signer, star) ==
    LET id == ncalls + 1
        message == Message(address, text)
        signature == Sign(signer, message)
        timeFromMessage == ParseInt(Split(message)[2])
        currentTime == Num(now)
        deltaTime == Minus(currentTime, timeFromMessage)
        \* (observation) the call just before this one was made with the same
        \* address, message and signature, and started an append
        reused == /\ last.op = "submitStar" /\ last.phase = "call"
                  /\ last.address = address /\ last.message = message
                  /\ last.signature = signature
                  /\ InFlight(last.id)
        call == [Event("submitStar", "call", id) EXCEPT
                    !.address = address, !.message = message,
                    !.signature = signature, !.reused = reused]
    IN
    /\ ncalls < MaxCalls
    /\ ncalls' = id
    /\ IF InWindow(deltaTime)
       THEN IF Verify(message, address, signature)
            THEN LET newBlock == NewBlock(StarData(star, address))
                 IN  /\ queue' = Enqueue(queue, ValidateChainStart(id),
                                          AddCont(id, SealBlock(newBlock)))
                     /\ errorLogs' = (id :> <<>>) @@ errorLogs
                     /\ chain' = AfterForEach(chain)
                     /\ last' = [call EXCEPT !.verified = TRUE]
            ELSE /\ last' = [call EXCEPT !.verified = TRUE]
                 /\ UNCHANGED <<chain, queue, errorLogs>>
       ELSE /\ last' = [call EXCEPT !.status = "rejected",
                                    !.reason = "Error: time passed 5 minutes."]
            /\ UNCHANGED <<chain, queue, errorLogs>>
    /\ UNCHANGED <<height, now, sealed>>

\* one forEach callback of validateChain resumes after `await block.validate()`
RunValidateCb ==
    /\ queue # <<>>
    /\ Head(queue).kind = "validateCb"
    /\ LET job == Head(queue)
       IN  errorLogs' = [errorLogs EXCEPT ![job.id] =
                            @ \o CallbackErrors(chain, job.idx, job.isValid)]
    /\ queue' = Tail(queue)
    /\ UNCHANGED <<chain, height, now, ncalls, last, sealed>>

\* _addBlock resumes after `await this.validateChain()`
RunAddCont ==
    /\ queue # <<>>
    /\ Head(queue).kind = "addCont"
    /\ LET job == Head(queue)
           errors == errorLogs[job.id]
           op == IF job.id = 0 THEN "construct" ELSE "submitStar"
           settle == [Event(op, "settle", job.id) EXCEPT
                        !.verified = TRUE, !.errors = errors]
       IN  /\ IF NoErrors(errors)
              THEN /\ chain' = Push(chain, job.block)
                   /\ height' = IncHeight(height)
                   /\ sealed' = Append(sealed, job.block)
                   /\ last' = [settle EXCEPT !.status = "resolved"]
              ELSE /\ last' = [settle EXCEPT !.status = "rejected",
                                             !.reason = "errors"]
                   /\ UNCHANGED <<chain, height, sealed>>
           /\ errorLogs' = [i \in DOMAIN errorLogs \ {job.id} |-> errorLogs[i]]
    /\ queue' = Tail(queue)
    /\ UNCHANGED <<now, ncalls>>

\* validateChain() called by a client that awaits the list
ValidateChain ==
    LET id == ClientRun
    IN
    /\ ~InFlight(id)
    /\ ncalls' = ncalls
    /\ queue' = Enqueue(queue, ValidateChainStart(id), ValidateRead(id, Tampered))
    /\ errorLogs' = (id :> <<>>) @@ errorLogs
    /\ chain' = AfterForEach(chain)
    /\ last' = Event("validateChain", "call", id)
    /\ UNCHANGED <<height, now, sealed>>

\* the client of validateChain resumes and reads the list
RunValidateRead ==
    /\ queue # <<>>
    /\ Head(queue).kind = "validateRead"
    /\ LET job == Head(queue)
       IN  /\ last' = [Event("validateChain", "settle", job.id) EXCEPT
                         !.status = "resolved", !.errors = errorLogs[job.id],
                         !.tampered = job.tampered]
           /\ errorLogs' = [i \in DOMAIN errorLogs \ {job.id} |-> errorLogs[i]]
    /\ queue' = Tail(queue)
    /\ UNCHANGED <<chain, height, now, ncalls, sealed>>

\* getChainHeight(): resolves with this.height
GetChainHeight ==
    /\ last' = [Event("getChainHeight", "call", 0) EXCEPT
                  !.status = "resolved", !.n = height]
    /\ UNCHANGED <<chain, height, now, queue, errorLogs, ncalls, sealed>>

\* the filter and map of getStarsByWalletAddress
StarsOf(ch, address) ==
    LET owned(block) == GetProp(GetBData(block), "owner") = JSString(address)
        mine == SelectSeq(ch, owned)
    IN  [i \in 1..Len(mine) |-> GetProp(GetBData(mine[i]), "star")]

\* getStarsByWalletAddress(address)
GetStarsByWalletAddress(address) ==
    /\ last' = [Event("getStarsByWalletAddress", "call", 0) EXCEPT
                  !.status = "resolved", !.address = address,
                  !.stars = StarsOf(chain, address)]
    /\ UNCHANGED <<chain, height, now, queue, errorLogs, ncalls, sealed>>

\* requestMessageOwnershipVerification(address): resolves with the message to
\* sign; nothing of the object is read or written
RequestMessageOwnershipVerification(address) ==
    /\ last' = [Event("requestMessageOwnershipVerification", "call", 0) EXCEPT
                  !.status = "resolved", !.address = address,
                  !.message = Message(address, Digits(now))]
    /\ UNCHANGED <<chain, height, now, queue, errorLogs, ncalls, sealed>>

\* a hash that no block carries
ForgedHash == <<"forged">>

\* self.chain.filter((block) => block.hash === hash): the positions of the
\* blocks kept, in chain order
FilterByHash(ch, hash) ==
    SelectSeq([i \in 1..Len(ch) |-> i], LAMBDA i : ch[i].hash = hash)

\* self.chain.filter((p) => p.height === height)
FilterByHeight(ch, h) ==
    SelectSeq([i \in 1..Len(ch) |-> i], LAMBDA i : ch[i].height = h)

\* getBlockByHash(hash): the array that filter returns is always truthy, so
\* the call resolves with its first element, undefined when it is empty
GetBlockByHash(hash) ==
    LET block == FilterByHash(chain, hash)
    IN
    /\ last' = [Event("getBlockByHash", "call", 0) EXCEPT
                  !.status = "resolved", !.key = hash,
                  !.found = IF block = <<>> THEN 0 ELSE block[1],
                  !.result = IF block = <<>> THEN "undefined" ELSE "block"]
    /\ UNCHANGED <<chain, height, now, queue, errorLogs, ncalls, sealed>>

\* getBlockByHeight(height): the first block of that height, or null
GetBlockByHeight(h) ==
    LET hits == FilterByHeight(chain, h)
    IN
    /\ last' = [Event("getBlockByHeight", "call", 0) EXCEPT
                  !.status = "resolved", !.n = h,
                  !.found = IF hits = <<>> THEN 0 ELSE hits[1],
                  !.result = IF hits = <<>> THEN "null" ELSE "block"]
    /\ UNCHANGED <<chain, height, now, queue, errorLogs, ncalls, sealed>>

\* the hashes and heights a client looks up: those of the committed blocks,
\* and one that no block carries
Hashes == {chain[i].hash : i \in 1..Len(chain)} \cup {ForgedHash}
Heights == {chain[i].height : i \in 1..Len(chain)} \cup {-1}

\* a hashed field of a committed block is modified in place, from outside the
\* class (the chain array and its Block objects are public properties)
ForgedBody == Encode(StarData("forged", "a1"))
TamperValues(i, field) ==
    IF field = "body" THEN {ForgedBody}
    ELSE IF field = "height" THEN {0, 1}
    ELSE IF field = "time" THEN {0}
    ELSE {ForgedHash}

Tamper ==
    /\ ncalls < MaxCalls
    /\ \E i \in 1..Len(chain),
          field \in {"body", "height", "time", "previousBlockHash"} :
         \E v \in TamperValues(i, field) :
            /\ v # chain[i][field]
            /\ chain' = [chain EXCEPT ![i][field] = v]
            /\ last' = [Event("tamper", "call", 0) EXCEPT !.n = i]
    /\ ncalls' = ncalls + 1
    /\ UNCHANGED <<height, now, queue, errorLogs, sealed>>

Next ==
    \/ Tick
    \/ \E address \in Addresses, text \in {Digits(t) : t \in Stamps} \cup {NoDigits},
          signer \in Addresses, star \in Stars :
            SubmitStar(address, text, signer, star)
    \/ RunValidateCb
    \/ RunAddCont
    \/ ValidateChain
    \/ RunValidateRead
    \/ GetChainHeight
    \/ \E address \in Addresses : GetStarsByWalletAddress(address)
    \/ \E address \in Addresses : RequestMessageOwnershipVerification(address)
    \/ \E hash \in Hashes : GetBlockByHash(hash)
    \/ \E h \in Heights : GetBlockByHeight(h)

\* the clients keep to the public methods
Spec == Init /\ [][Next]_vars

NextTamper == Next \/ Tamper

\* committed blocks may also be modified in place
SpecTamper == Init /\ [][NextTamper]_vars

-----------------------------------------------------------------------------
(* Properties *)

\* the step is the synchronous part of a submitStar call
IsSubmit == ncalls' = ncalls + 1 /\ last'.op = "submitStar" /\ last'.phase = "call"

\* the step is the resumption of the _addBlock of a submitStar call
IsSubmitSettle ==
    IF queue = <<>> THEN FALSE
    ELSE Head(queue).kind = "addCont" /\ Head(queue).id # 0 /\ queue' = Tail(queue)

\* the step is the resumption of any _addBlock
IsAddSettle ==
    IF queue = <<>> THEN FALSE
    ELSE Head(queue).kind = "addCont" /\ queue' = Tail(queue)

\* C1: chain linkage: every block after the first carries the hash of the
\* block before it, and no two committed blocks carry the same
\* previousBlockHash, also when appends are in flight together.
ChainLinkage ==
    /\ \A i \in 2..Len(chain) : chain[i].previousBlockHash = chain[i - 1].hash
    /\ \A i, j \in 1..Len(chain) :
          i # j => chain[i].previousBlockHash # chain[j].previousBlockHash

\* C2: once the constructor has returned the chain holds the genesis block
\* (height 0, previousBlockHash null, valid hash) at index 0, every later
\* operation starts on a chain of one block or more, and no other block has
\* height 0.
GenesisSeeded ==
    /\ Len(chain) >= 1
    /\ last.phase = "call" => last.len0 >= 1
    /\ chain[1].height = 0
    /\ chain[1].previousBlockHash = Null
    /\ Validate(chain[1])
    /\ \A i \in 2..Len(chain) : chain[i].height # 0

\* C3: a submitStar call with nothing left to run has returned a result; when
\* its message was inside the window and its signature does not verify, the
\* result is the failure InvalidSignature.
SubmitStarReturns ==
    (last.op = "submitStar" /\ ~InFlight(last.id)) =>
        /\ last.status # "pending"
        /\ (last.verified /\ last.signature # Sign(last.address, last.message)) =>
              (last.status = "rejected" /\ last.reason = "InvalidSignature")

\* the stars of the committed blocks whose decoded body has owner = address
ExpectedStars(ch, address) ==
    LET owned(block) ==
            LET data == Decode(block.body)
            IN  IF "owner" \in DOMAIN data THEN data.owner = address ELSE FALSE
        mine == SelectSeq(ch, owned)
    IN  [i \in 1..Len(mine) |-> JSString(Decode(mine[i].body).star)]

\* C4: getStarsByWalletAddress(a) resolves with exactly the stars of the
\* committed blocks owned by a, in append order, without the genesis block.
OwnerLookup ==
    last.op = "getStarsByWalletAddress" =>
        last.stars = ExpectedStars(chain, last.address)

\* C5: after N committed appends on a fresh chain the height is N and a
\* validateChain of the chain, new block included, finds no error.
AppendsKeepChainValid ==
    Len(chain) >= 1 =>
        /\ height = Len(chain) - 1
        /\ ValidateChainNow(chain) = <<>>

\* the window gate of submitStar, for a message that embeds a timestamp
WindowGate ==
    (IsSubmit /\ last'.message[2].digits) =>
        LET delta == now - last'.message[2].val
            valid == last'.signature = Sign(last'.address, last'.message)
        IN  /\ delta > 300 =>
                  /\ last'.status = "rejected"
                  /\ last'.reason = "Error: time passed 5 minutes."
                  /\ ~last'.verified
                  /\ queue' = queue
            /\ delta <= 300 =>
                  /\ last'.verified
                  /\ last'.status = "pending"
                  /\ valid =>
                        /\ Len(queue') = Len(queue) + Len(chain) + 1
                        /\ queue'[Len(queue')].kind = "addCont"
                        /\ queue'[Len(queue')].id = last'.id
                        /\ Decode(queue'[Len(queue')].block.body).owner = last'.address

\* C6 (as amended): submitStar is rejected as expired exactly when delta > 300,
\* without the signature being verified; when delta <= 300 (299, 300, 0 and
\* negative included) the signature is verified and, when it is valid, a
\* block is built and handed to _addBlock, and the call resolves with the
\* block exactly when the validation run by that _addBlock finds no error,
\* and is rejected with the error list otherwise.
TimeWindow ==
    [][/\ WindowGate
       /\ IsSubmitSettle =>
             IF errorLogs[Head(queue).id] = <<>>
             THEN last'.status = "resolved" /\ chain' = Append(chain, Head(queue).block)
             ELSE last'.status = "rejected" /\ last'.errors = errorLogs[Head(queue).id]
      ]_vars

\* C6 (as stated): ... when delta <= 300 the call proceeds to signature
\* verification and succeeds if the signature is valid.
TimeWindowAlwaysSucceeds ==
    [][/\ WindowGate
       /\ IsSubmitSettle => last'.status = "resolved"
      ]_vars

\* a submitStar made with delta = 300 exactly and a valid signature, on a
\* chain that holds its genesis block, has passed the gate: its append is in
\* flight
TimeWindowWitness ==
    /\ last.op = "submitStar" /\ last.phase = "call"
    /\ last.message[2] = Digits(1000) /\ now = 1300
    /\ last.signature = Sign(last.address, last.message)
    /\ last.verified
    /\ InFlight(last.id)
    /\ Len(chain) = 1 /\ last.len0 = 1

\* C7: a submitStar whose message is inside the window and whose signature
\* does not verify, or whose message is expired, builds no block, starts no
\* append and leaves the chain and the height as they were.
FailedGateBuildsNothing ==
    [][(IsSubmit /\ last'.message[2].digits) =>
          LET delta == now - last'.message[2].val
              valid == last'.signature = Sign(last'.address, last'.message)
          IN  (delta > 300 \/ ~valid) =>
                  /\ chain' = chain
                  /\ height' = height
                  /\ queue' = queue
                  /\ errorLogs' = errorLogs
      ]_vars

\* an in-window submitStar with a signature of another key, on a chain that
\* already holds a star
FailedGateWitness ==
    /\ last.op = "submitStar" /\ last.phase = "call"
    /\ last.verified
    /\ last.signature # Sign(last.address, last.message)
    /\ ~InFlight(last.id)
    /\ Len(chain) = 2 /\ chain[2].height = 1 /\ height = 1

\* C8: when the validation run by _addBlock reports an error the append is
\* rejected with the whole list and leaves the chain and the height as they
\* were; the height matches the chain after the step as before it.
AppendRollback ==
    [][(IsAddSettle /\ IF queue = <<>> THEN FALSE
                       ELSE errorLogs[Head(queue).id] # <<>>) =>
          /\ chain' = chain
          /\ height' = height
          /\ height' = Len(chain') - 1
          /\ last'.status = "rejected"
          /\ last'.errors = errorLogs[Head(queue).id]
      ]_vars

\* an append was rejected with a list of errors
AppendRollbackWitness ==
    /\ last.op = "submitStar" /\ last.phase = "settle"
    /\ last.status = "rejected"
    /\ Len(last.errors) >= 1
    /\ chain # sealed /\ Len(chain) = Len(sealed)

\* C9: a validateChain made after a hashed field of a committed block was
\* modified in place reports a failed self-hash check that names the height
\* of that block.
TamperReportedAtHeight ==
    (last.op = "validateChain" /\ last.phase = "settle") =>
        \A i \in last.tampered :
            \E k \in 1..Len(last.errors) :
                /\ last.errors[k].error = "Block validation failed!"
                /\ "height" \in DOMAIN last.errors[k]
                /\ last.errors[k].height = sealed[i].height

\* C10: the height is the length of the chain minus one in every state, the
\* states between the jobs of an append in flight included.
HeightCounter == height = Len(chain) - 1

\* an append is in flight on a chain that already holds a star
HeightCounterWitness ==
    /\ Len(chain) = 2 /\ chain[2].height = 1 /\ height = 1
    /\ \E k \in 1..Len(queue) : queue[k].kind = "addCont"

\* C11: the block at index i of the chain has height i (positions count from
\* 1 here), so only the first block has height 0, heights grow by one along
\* the chain and no two blocks share a height, whatever the interleaving of
\* the appends.
HeightsFollowPositions ==
    \A i \in 1..Len(chain) : chain[i].height = i - 1

\* C12: over the public operations the chain only grows at its end: a step
\* in which an append commits puts exactly its block after the blocks already
\* there, and every other step (the calls and the jobs of
\* requestMessageOwnershipVerification, submitStar, getBlockByHash,
\* getBlockByHeight, getStarsByWalletAddress, validateChain and
\* getChainHeight) leaves the chain, every field of every block included, as
\* it was.
AppendOnly ==
    [][IF IsAddSettle /\ last'.status = "resolved"
       THEN chain' = Append(chain, Head(queue).block)
       ELSE chain' = chain
      ]_vars

\* two stars were appended after the genesis block and a lookup ran since
AppendOnlyWitness ==
    /\ Len(chain) = 3
    /\ chain[1].height = 0 /\ Decode(chain[1].body) = GenesisData
    /\ last.op \in {"getBlockByHash", "getBlockByHeight",
                    "getStarsByWalletAddress", "getChainHeight",
                    "requestMessageOwnershipVerification"}

\* C13: getBlockByHeight(b.height) and getBlockByHash(b.hash) resolve with
\* the committed block b itself, for every committed block b, and a height or
\* a hash that no committed block carries resolves with an absent result
\* (null, undefined).
LookupAgreement ==
    /\ last.op = "getBlockByHeight" =>
          LET carriers == {i \in 1..Len(chain) : chain[i].height = last.n}
          IN  IF carriers = {}
              THEN last.found = 0 /\ last.result = "null"
              ELSE \A i \in carriers : last.result = "block" /\ last.found = i
    /\ last.op = "getBlockByHash" =>
          LET carriers == {i \in 1..Len(chain) : chain[i].hash = last.key}
          IN  IF carriers = {}
              THEN last.found = 0 /\ last.result = "undefined"
              ELSE \A i \in carriers : last.result = "block" /\ last.found = i

\* the step starts a validateChain run: a call by a client, or the call that
\* _addBlock makes
StartsValidateChain == DOMAIN errorLogs' \ DOMAIN errorLogs # {}

\* the step resumes a forEach callback of a validateChain run, or the client
\* that awaits the list
IsValidateJob ==
    IF queue = <<>> THEN FALSE
    ELSE /\ Head(queue).kind \in {"validateCb", "validateRead"}
         /\ queue' = Tail(queue)

\* C14: no step of a validateChain run, called by a client or inside
\* _addBlock, with or without findings, changes the chain, a field of a
\* block or the height.
ValidateChainReadOnly ==
    [][(StartsValidateChain \/ IsValidateJob) =>
          /\ chain' = chain
          /\ height' = height
      ]_vars

\* a validateChain called by a client has resolved with findings, and the
\* run inside the _addBlock of a later submitStar has recorded a finding
ValidateChainReadOnlyWitness ==
    /\ last.op = "validateChain" /\ last.phase = "settle"
    /\ last.errors # <<>>
    /\ \E id \in DOMAIN errorLogs : id > 0 /\ errorLogs[id] # <<>>

\* the step resumes the caller of a validateChain run: _addBlock at its gate,
\* or a client
IsCallerResume ==
    IF queue = <<>> THEN FALSE
    ELSE /\ Head(queue).kind \in {"addCont", "validateRead"}
         /\ queue' = Tail(queue)

\* C15: when the caller of validateChain (the gate of _addBlock included)
\* reads the list, every callback of the walk has run: no callback of the run
\* is pending, so nothing is added to the list afterwards, and the list holds
\* exactly the findings of every check on every block walked; _addBlock
\* commits exactly when none of these checks fails.
AllFindingsRecorded ==
    [][/\ \A k \in 1..Len(queue) :
             queue[k].kind = "validateCb" =>
                /\ queue[k].id \in DOMAIN errorLogs
                /\ \E m \in (k + 1)..Len(queue) :
                      /\ queue[m].id = queue[k].id
                      /\ queue[m].kind \in {"addCont", "validateRead"}
       /\ IsCallerResume =>
             LET job == Head(queue)
                 findings == ValidateChainNow(SubSeq(chain, 1, job.idx))
             IN  /\ errorLogs[job.id] = findings
                 /\ last'.errors = findings
                 /\ \A k \in 1..Len(queue') : queue'[k].id # job.id
                 /\ job.kind = "addCont" => (chain' # chain <=> findings = <<>>)
      ]_vars

\* a client of validateChain has read a list that holds a broken link, on a
\* chain of three blocks
AllFindingsRecordedWitness ==
    /\ last.op = "validateChain" /\ last.phase = "settle"
    /\ Len(chain) = 3
    /\ \E k \in 1..Len(last.errors) : last.errors[k] = LinkFailed

\* the step resumes a forEach callback of a validateChain run
IsValidateCb ==
    IF queue = <<>> THEN FALSE
    ELSE Head(queue).kind = "validateCb" /\ queue' = Tail(queue)

\* the callback resumed by the step pushes a broken-link finding
LinkRecorded ==
    LET id == Head(queue).id
    IN  \E k \in (Len(errorLogs[id]) + 1)..Len(errorLogs'[id]) :
            errorLogs'[id][k] = LinkFailed

\* the block at position i does not carry the hash of the block before it
LinkBroken(i) == chain[i].previousBlockHash # chain[i - 1].hash

\* C16 (as amended): the walk records a broken link for the block at
\* position i exactly when the block is not the first, its height field is
\* greater than 0 and its previousBlockHash differs from the hash of the block
\* before it; none is recorded for the first block, nor for a later block
\* whose height field is 0, even when its link is broken.
LinkBreakDetection ==
    [][IsValidateCb =>
          LET i == Head(queue).idx
          IN  LinkRecorded <=>
                  (i > 1 /\ chain[i].height > 0 /\ LinkBroken(i))
      ]_vars

\* C16 (as stated): the walk records a broken link for the block at position
\* i exactly when the block is not the first and its previousBlockHash
\* differs from the hash of the block before it, whatever its height.
LinkBreakDetectionAtEveryIndex ==
    [][IsValidateCb =>
          LET i == Head(queue).idx
          IN  LinkRecorded <=> (i > 1 /\ LinkBroken(i))
      ]_vars

\* a walk has recorded the broken link of the third block (height 1) of a
\* chain whose second block has height 0 and a broken link
LinkBreakDetectionWitness ==
    /\ Len(chain) = 3
    /\ chain[2].height = 0 /\ LinkBroken(2)
    /\ chain[3].height > 0 /\ LinkBroken(3)
    /\ \E id \in DOMAIN errorLogs :
          /\ errorLogs[id] = <<LinkFailed>>
          /\ \A k \in 1..Len(queue) :
                ~(queue[k].kind = "validateCb" /\ queue[k].id = id)

\* C17: from a state in which a validateChain of the committed chain reports
\* an error the chain never grows: every append that resumes is rejected with
\* that list; and an append is rejected only with errors of the committed
\* blocks.
ChainFreezes ==
    [][/\ ValidateChainNow(chain) # <<>> =>
             /\ Len(chain') = Len(chain)
             /\ IsAddSettle =>
                   /\ last'.status = "rejected"
                   /\ last'.errors = ValidateChainNow(chain)
       /\ (IsAddSettle /\ last'.status = "rejected") =>
             ValidateChainNow(chain) # <<>>
      ]_vars

\* the step is a requestMessageOwnershipVerification call
IsRequest == last' # last /\ last'.op = "requestMessageOwnershipVerification"

\* submitStar accepts the proof it is given: it starts the append of a block
\* of the address
Accepted ==
    /\ Len(queue') = Len(queue) + Len(chain) + 1
    /\ queue'[Len(queue')].kind = "addCont"
    /\ queue'[Len(queue')].id = last'.id
    /\ Decode(queue'[Len(queue')].block.body).owner = last'.address

\* whether submitStar accepts depends on the address, the message, the
\* signature and the clock only, and issuing a message leaves no trace
StatelessGate ==
    /\ IsSubmit =>
          LET text == last'.message[2]
              inWindow == text.digits /\ now - text.val <= 300
              valid == last'.signature = Sign(last'.address, last'.message)
          IN  /\ (inWindow /\ valid) => Accepted
              /\ ~(inWindow /\ valid) => queue' = queue
    /\ IsRequest =>
          /\ last'.message = <<last'.address, Digits(now), "starRegistry">>
          /\ UNCHANGED <<chain, height, now, queue, errorLogs, ncalls>>

\* C18 (as amended): submitStar keeps no record of the challenges issued or
\* consumed: a submission is accepted exactly when its message is inside the
\* window and its signature is valid, whatever was issued or accepted before,
\* so the same proof is accepted again as long as delta <= 300 and so is a
\* message that was never issued; each acceptance starts one append, which
\* puts one further block on the chain exactly when the validation run by
\* that append finds no error.
StatelessChallenges ==
    [][/\ StatelessGate
       /\ IsSubmitSettle =>
             IF errorLogs[Head(queue).id] = <<>>
             THEN chain' = Append(chain, Head(queue).block)
             ELSE chain' = chain
      ]_vars

\* C18 (as stated): ... each acceptance appending one further block.
StatelessChallengesAlwaysAppend ==
    [][/\ StatelessGate
       /\ IsSubmitSettle => chain' = Append(chain, Head(queue).block)
      ]_vars

\* the proof accepted by the submitStar before it is accepted again while the
\* first append is still in flight; its message carries a timestamp older
\* than every value of the clock, so it was never issued
StatelessChallengesWitness ==
    /\ last.op = "submitStar" /\ last.phase = "call"
    /\ last.reused
    /\ InFlight(last.id) /\ InFlight(last.id - 1)
    /\ last.message[2].digits
    /\ \A t \in Clock : last.message[2].val < t
    /\ Len(chain) >= 1

====
